---- MODULE Spec2Model ----
(***************************************************************************)
(* Cave generator (cellular automaton) of src/main.cpp: the CaveGenerator  *)
(* core (constructor, initializeCave, simulateStep, countAliveNeighbors,   *)
(* getAliveCount) and the GraphicsManager event loop that drives it.       *)
(*                                                                         *)
(* Probabilities are held in hundredths: birthChance = 45 is 0.45, and a   *)
(* draw of uniform_real_distribution(0.0, 1.0) is a value of Draws, all    *)
(* below 100 because the distribution's range is [0, 1).                   *)
(***************************************************************************)
EXTENDS Integers, Sequences, FiniteSets, TLC

VARIABLES
    inp,              \* main's locals read from std::cin (main.cpp:361-375)
    pc,               \* position of the program
    width, height,    \* CaveGenerator members (main.cpp:24)
    cave,             \* CaveGenerator::cave (main.cpp:25), indexed cave[x][y]
    birthChance, birthLimit, deathLimit,   \* main.cpp:26-28
    iteration,        \* GraphicsManager::iteration (main.cpp:154)
    cellSize,         \* GraphicsManager::cellSize (main.cpp:155)
    windowOpen,       \* sf::RenderWindow::isOpen() of GraphicsManager::window
    newCave,          \* simulateStep's local newCave (main.cpp:98)
    k,                \* simulateStep's loop position: cell (k \div height, k % height)
    pre,              \* history: the grid simulateStep last started from
    lastOp,           \* history: the last core operation applied to the grid
    stepsSinceReset   \* history: simulateStep calls since the last initializeCave

vars == <<inp, pc, width, height, cave, birthChance, birthLimit, deathLimit,
          iteration, cellSize, windowOpen, newCave, k, pre, lastOp,
          stepsSinceReset>>

core == <<width, height, cave, birthChance, birthLimit, deathLimit>>

(***************************************************************************)
(* Bounds of the model.                                                    *)
(***************************************************************************)
MaxSide == 3
MaxCells == 9
MaxIter == 2

BirthLimits == {0, 4}
DeathLimits == {0, 3, 5}
Chances == {0, 45, 100}
Draws == {0, 50, 99}

\* The two end-to-end scenarios of the design (5x5 all alive, 3x3 all dead),
\* a 3x3 all-alive cave with both limits at 8, and a 2x2 cave whose limits
\* lie outside the neighbour-count range 0..8.
ScenarioInputs ==
    { [w |-> 5, h |-> 5, chance |-> 100, birth |-> 8, death |-> 0],
      [w |-> 3, h |-> 3, chance |-> 0, birth |-> 0, death |-> 5],
      [w |-> 3, h |-> 3, chance |-> 100, birth |-> 8, death |-> 8],
      [w |-> 2, h |-> 2, chance |-> 100, birth |-> -1, death |-> 9] }

ValidInputs ==
    { i \in [w : 1..MaxSide, h : 1..MaxSide, chance : Chances,
             birth : BirthLimits, death : DeathLimits] : i.w * i.h <= MaxCells }

\* Inputs that break the documented preconditions (width, height > 0 and
\* birth chance in 0.0-1.0).
InvalidInputs ==
    { [w |-> d[1], h |-> d[2], chance |-> 45, birth |-> 4, death |-> 3] :
        d \in {<<0, 2>>, <<2, 0>>, <<-1, 2>>, <<2, -1>>, <<0, 0>>} }
    \cup { [w |-> 2, h |-> 2, chance |-> c, birth |-> 4, death |-> 3] :
        c \in {-50, 150} }

Inputs == ValidInputs \cup ScenarioInputs \cup InvalidInputs

ValidInput(i) == i.w > 0 /\ i.h > 0 /\ i.chance >= 0 /\ i.chance <= 100

(***************************************************************************)
(* CaveGenerator                                                           *)
(***************************************************************************)

\* The nine (i, j) pairs in the order of the loops of countAliveNeighbors.
Offsets == << <<-1, -1>>, <<-1, 0>>, <<-1, 1>>,
              << 0, -1>>, << 0, 0>>, << 0, 1>>,
              << 1, -1>>, << 1, 0>>, << 1, 1>> >>

\* The count on a torus: positions past an edge wrap to the other side.
NeighborWrapped(c, x, y, o) ==
    IF o[1] = 0 /\ o[2] = 0 THEN 0
    ELSE IF c[(x + o[1]) % width][(y + o[2]) % height] THEN 1 ELSE 0

\* One iteration of the inner loop body: what it adds to count.
NeighborContribution(c, x, y, o) ==
    IF o[1] = 0 /\ o[2] = 0 THEN 0
    ELSE LET neighborX == x + o[1]
             neighborY == y + o[2]
         IN  IF neighborX >= 0 /\ neighborX < width
                /\ neighborY >= 0 /\ neighborY < height
             THEN IF c[neighborX][neighborY] THEN 1 ELSE 0
             ELSE 0

RECURSIVE CountFrom(_, _, _, _)
CountFrom(c, x, y, n) ==
    IF n > Len(Offsets) THEN 0
    ELSE NeighborContribution(c, x, y, Offsets[n]) + CountFrom(c, x, y, n + 1)

countAliveNeighbors(c, x, y) == CountFrom(c, x, y, 1)

\* Alive also when the draw equals birthChance.
CellBornInclusive(draw, chance) == draw <= chance

\* The comparison of initializeCave: the cell is alive iff the draw is below
\* birthChance.
CellBorn(draw, chance) == draw < chance

\* The values a cell can be given: one per possible draw.
CellOutcomes(chance) == {CellBorn(d, chance) : d \in Draws}

\* initializeCave on grid c: every cell (x, y), x < w, y < h, is assigned the
\* outcome of its own draw; the result is any grid the draws can give.  When
\* the loops cover the whole of c, as they do for a grid resized to w by h,
\* that is every w by h grid of possible outcomes.
initializeCave(c, w, h, chance) ==
    IF DOMAIN c = 0..(w - 1) /\ \A x \in DOMAIN c : DOMAIN c[x] = 0..(h - 1)
    THEN [0..(w - 1) -> [0..(h - 1) -> CellOutcomes(chance)]]
    ELSE { [x \in DOMAIN c |-> [y \in DOMAIN c[x] |->
              IF x < w /\ y < h THEN g[x][y] ELSE c[x][y]]] :
           g \in [0..(w - 1) -> [0..(h - 1) -> CellOutcomes(chance)]] }

\* The rule with one or both comparisons made inclusive.
NextCellBirthInclusive(c, nc, x, y) ==
    LET aliveNeighbors == countAliveNeighbors(c, x, y)
    IN  IF c[x][y]
        THEN IF aliveNeighbors < deathLimit THEN FALSE ELSE nc[x][y]
        ELSE IF aliveNeighbors >= birthLimit THEN TRUE ELSE nc[x][y]

NextCellDeathInclusive(c, nc, x, y) ==
    LET aliveNeighbors == countAliveNeighbors(c, x, y)
    IN  IF c[x][y]
        THEN IF aliveNeighbors <= deathLimit THEN FALSE ELSE nc[x][y]
        ELSE IF aliveNeighbors > birthLimit THEN TRUE ELSE nc[x][y]

NextCellInclusive(c, nc, x, y) ==
    LET aliveNeighbors == countAliveNeighbors(c, x, y)
    IN  IF c[x][y]
        THEN IF aliveNeighbors <= deathLimit THEN FALSE ELSE nc[x][y]
        ELSE IF aliveNeighbors >= birthLimit THEN TRUE ELSE nc[x][y]

\* The body of simulateStep's loops for cell (x, y): the value newCave[x][y]
\* holds afterwards, with the counts and the cell read from grid c.
NextCell(c, nc, x, y) ==
    LET aliveNeighbors == countAliveNeighbors(c, x, y)
    IN  IF c[x][y]
        THEN IF aliveNeighbors < deathLimit THEN FALSE ELSE nc[x][y]
        ELSE IF aliveNeighbors > birthLimit THEN TRUE ELSE nc[x][y]

\* The nested loops of simulateStep from position n on: cell n is
\* (n \div height, n % height), x outermost.
RECURSIVE StepLoop(_, _, _)
StepLoop(c, nc, n) ==
    IF n >= width * height \/ height <= 0 THEN nc
    ELSE LET x == n \div height
             y == n % height
         IN  StepLoop(c, [nc EXCEPT ![x][y] = NextCell(c, nc, x, y)], n + 1)

\* A step that writes into the grid it reads.
RECURSIVE StepLoopInPlace(_, _)
StepLoopInPlace(c, n) ==
    IF n >= width * height \/ height <= 0 THEN c
    ELSE LET x == n \div height
             y == n % height
         IN  StepLoopInPlace([c EXCEPT ![x][y] = NextCell(c, c, x, y)], n + 1)

simulateStepInPlace(c) == StepLoopInPlace(c, 0)

\* A step whose new grid loses the last column.
simulateStepShrunk(c) ==
    LET nc == StepLoop(c, c, 0)
    IN  [x \in 0..(width - 2) |-> nc[x]]

\* simulateStep: newCave = cave; the loops; cave = newCave.
simulateStep(c) == StepLoop(c, c, 0)

RECURSIVE AliveFrom(_, _)
AliveFrom(c, n) ==
    IF n >= width * height \/ height <= 0 THEN 0
    ELSE (IF c[n \div height][n % height] THEN 1 ELSE 0) + AliveFrom(c, n + 1)

\* A count that misses cell (0, 0).
getAliveCountShort(c) ==
    IF width * height <= 0 THEN 0 ELSE AliveFrom(c, 1)

\* getAliveCount: the loops over x < width, y < height.
getAliveCount(c) == AliveFrom(c, 0)


(***************************************************************************)
(* The program: main, the constructors, and the loop of                    *)
(* GraphicsManager::run (handleEvents, one polled event at a time, then    *)
(* render).                                                                *)
(***************************************************************************)

Init ==
    /\ inp \in Inputs
    /\ pc = "main"
    /\ width = 0 /\ height = 0
    /\ cave = << >>
    /\ birthChance = 0 /\ birthLimit = 0 /\ deathLimit = 0
    /\ iteration = 0 /\ cellSize = 0 /\ windowOpen = FALSE
    /\ newCave = << >> /\ k = 0
    /\ pre = << >> /\ lastOp = "none" /\ stepsSinceReset = 0

\* CaveGenerator's constructor with the values read by main.
\* A negative width makes cave.resize ask for more than max_size() elements:
\* std::length_error, never caught.  A negative height makes the
\* std::vector<bool> of the column prototype undefined: the program either
\* dies there or goes on with columns that hold no cell a loop can reach.
Construct ==
    /\ pc = "main"
    /\ \/ /\ inp.w < 0
          /\ pc' = "error"
          /\ UNCHANGED <<core, pre, lastOp>>
       \/ /\ inp.w >= 0 /\ inp.h < 0
          /\ \/ /\ pc' = "error"
                /\ UNCHANGED <<core, pre, lastOp>>
             \/ /\ pc' = "constructed"
                /\ width' = inp.w /\ height' = inp.h
                /\ birthChance' = inp.chance
                /\ birthLimit' = inp.birth /\ deathLimit' = inp.death
                /\ cave' = [x \in 0..(inp.w - 1) |-> << >>]
                /\ pre' = cave'
                /\ lastOp' = "construct"
       \/ /\ inp.w >= 0 /\ inp.h >= 0
          /\ pc' = "constructed"
          /\ width' = inp.w /\ height' = inp.h
          /\ birthChance' = inp.chance
          /\ birthLimit' = inp.birth /\ deathLimit' = inp.death
          /\ cave' \in initializeCave(
                 [x \in 0..(inp.w - 1) |-> [y \in 0..(inp.h - 1) |-> FALSE]],
                 inp.w, inp.h, inp.chance)
          /\ pre' = cave'
          /\ lastOp' = "construct"
    /\ UNCHANGED <<inp, iteration, cellSize, windowOpen, newCave, k,
                   stepsSinceReset>>

\* C++ integer division (truncation toward zero), b # 0.
CDiv(a, b) ==
    IF (a >= 0) = (b > 0) THEN a \div b
    ELSE -((-a) \div b)

Min(a, b) == IF a < b THEN a ELSE b

\* GraphicsManager's constructor.  600 / caveWidth and 500 / caveHeight
\* divide by zero for an empty cave: undefined, the program either dies or
\* goes on with some cell size, which the next line raises to at least 3.
CreateGraphics ==
    /\ pc = "constructed"
    /\ \/ /\ width # 0 /\ height # 0
          /\ LET size == Min(CDiv(600, width), CDiv(500, height))
             IN  cellSize' = IF size < 3 THEN 3 ELSE size
          /\ pc' = "events"
          /\ windowOpen' = TRUE
       \/ /\ (width = 0 \/ height = 0)
          /\ \/ /\ pc' = "error"
                /\ UNCHANGED cellSize
                /\ windowOpen' = TRUE
             \/ /\ pc' = "events"
                /\ cellSize' = 3
                /\ windowOpen' = TRUE
    /\ iteration' = 0
    /\ UNCHANGED <<inp, core, newCave, k, pre, lastOp, stepsSinceReset>>

\* handleEvents polls sf::Event::Closed.
EventClosed ==
    /\ pc = "events" /\ windowOpen
    /\ windowOpen' = FALSE
    /\ UNCHANGED <<inp, pc, core, iteration, cellSize, newCave, k, pre, lastOp,
                   stepsSinceReset>>

\* handleEvents polls KeyPressed with sf::Keyboard::Space.
KeySpace ==
    /\ pc = "events" /\ windowOpen
    /\ iteration < MaxIter
    /\ pre' = cave
    /\ cave' = simulateStep(cave)
    /\ lastOp' = "step"
    /\ stepsSinceReset' = stepsSinceReset + 1
    /\ iteration' = iteration + 1
    /\ UNCHANGED <<inp, pc, width, height, birthChance, birthLimit, deathLimit,
                   cellSize, windowOpen, newCave, k>>

\* A reset that leaves the counter alone.
KeyRKeepsIteration ==
    /\ pc = "events" /\ windowOpen
    /\ cave' \in initializeCave(cave, width, height, birthChance)
    /\ pre' = cave'
    /\ lastOp' = "randomize"
    /\ stepsSinceReset' = 0
    /\ UNCHANGED <<inp, pc, width, height, birthChance, birthLimit, deathLimit,
                   iteration, cellSize, windowOpen, newCave, k>>

\* handleEvents polls KeyPressed with sf::Keyboard::R.
KeyR ==
    /\ pc = "events" /\ windowOpen
    /\ cave' \in initializeCave(cave, width, height, birthChance)
    /\ pre' = cave'
    /\ lastOp' = "randomize"
    /\ stepsSinceReset' = 0
    /\ iteration' = 0
    /\ UNCHANGED <<inp, pc, width, height, birthChance, birthLimit, deathLimit,
                   cellSize, windowOpen, newCave, k>>

\* handleEvents polls KeyPressed with sf::Keyboard::Escape.
KeyEscape ==
    /\ pc = "events" /\ windowOpen
    /\ windowOpen' = FALSE
    /\ UNCHANGED <<inp, pc, core, iteration, cellSize, newCave, k, pre, lastOp,
                   stepsSinceReset>>

\* handleEvents polls any other event (another key, a mouse or resize
\* event): neither branch of the handler is taken.
EventOther ==
    /\ pc = "events" /\ windowOpen
    /\ UNCHANGED vars

\* pollEvent returns false (no event pending, or the window is closed):
\* handleEvents returns and run goes on to render.
PollEmpty ==
    /\ pc = "events"
    /\ pc' = "render"
    /\ UNCHANGED <<inp, core, iteration, cellSize, windowOpen, newCave, k, pre,
                   lastOp, stepsSinceReset>>

\* render: drawCave reads getCave(), drawInfoPanel reads getAliveCount() and
\* the other accessors; nothing of the automaton or the counter is written.
\* run then tests window.isOpen().
Render ==
    /\ pc = "render"
    /\ pc' = IF windowOpen THEN "events" ELSE "done"
    /\ UNCHANGED <<inp, core, iteration, cellSize, windowOpen, newCave, k, pre,
                   lastOp, stepsSinceReset>>

Next ==
    \/ Construct
    \/ CreateGraphics
    \/ EventClosed
    \/ KeySpace
    \/ KeyR
    \/ KeyEscape
    \/ EventOther
    \/ PollEmpty
    \/ Render

Spec == Init /\ [][Next]_vars

(***************************************************************************)
(* simulateStep one loop iteration at a time.                              *)
(***************************************************************************)

\* KeyPressed with Space: simulateStep is entered, newCave = cave.
StepBegin ==
    /\ pc = "events" /\ windowOpen
    /\ iteration < MaxIter
    /\ pc' = "step"
    /\ newCave' = cave
    /\ k' = 0
    /\ pre' = cave
    /\ UNCHANGED <<inp, core, iteration, cellSize, windowOpen, lastOp,
                   stepsSinceReset>>

\* One iteration of the loops, written as an update of the grid itself.
StepCellInPlace ==
    /\ pc = "step"
    /\ height > 0 /\ k < width * height
    /\ LET x == k \div height
           y == k % height
       IN  /\ cave' = [cave EXCEPT ![x][y] = NextCell(cave, cave, x, y)]
           /\ newCave' = cave'
    /\ k' = k + 1
    /\ UNCHANGED <<inp, pc, width, height, birthChance, birthLimit, deathLimit,
                   iteration, cellSize, windowOpen, pre, lastOp, stepsSinceReset>>

\* One iteration of the loops of simulateStep (lines 102-112).
StepCell ==
    /\ pc = "step"
    /\ height > 0 /\ k < width * height
    /\ LET x == k \div height
           y == k % height
       IN  newCave' = [newCave EXCEPT ![x][y] = NextCell(cave, newCave, x, y)]
    /\ k' = k + 1
    /\ UNCHANGED <<inp, pc, core, iteration, cellSize, windowOpen, pre, lastOp,
                   stepsSinceReset>>

\* The loops are over: cave = newCave, simulateStep returns and handleEvents
\* increments iteration.
StepEnd ==
    /\ pc = "step"
    /\ ~(height > 0 /\ k < width * height)
    /\ cave' = newCave
    /\ newCave' = << >>
    /\ k' = 0
    /\ lastOp' = "step"
    /\ stepsSinceReset' = stepsSinceReset + 1
    /\ iteration' = iteration + 1
    /\ pc' = "events"
    /\ UNCHANGED <<inp, width, height, birthChance, birthLimit, deathLimit,
                   cellSize, windowOpen, pre>>

NextFine ==
    \/ Construct
    \/ CreateGraphics
    \/ EventClosed
    \/ StepBegin
    \/ StepCell
    \/ StepEnd
    \/ KeyR
    \/ KeyEscape
    \/ EventOther
    \/ PollEmpty
    \/ Render

SpecFine == Init /\ [][NextFine]_vars


(***************************************************************************)
(* Vocabulary of the properties.                                           *)
(***************************************************************************)

Constructed == pc \in {"constructed", "events", "render", "done", "step"}

\* Between operations: no simulateStep is under way.
Settled == pc \in {"constructed", "events", "render", "done"}

Cells == (0..(width - 1)) \X (0..(height - 1))

Abs(n) == IF n < 0 THEN -n ELSE n

\* The alive cells of grid c, other than (x, y) itself, that lie inside the
\* grid at distance at most one in each coordinate.
AliveAround(c, x, y) ==
    Cardinality({ p \in Cells : /\ p # <<x, y>>
                                /\ Abs(p[1] - x) <= 1
                                /\ Abs(p[2] - y) <= 1
                                /\ c[p[1]][p[2]] })

\* The rule of the automaton: the next value of a cell that is `alive` and
\* has n alive neighbours.
Rule(alive, n) == IF alive THEN n >= deathLimit ELSE n > birthLimit

AliveCells(c) == { p \in Cells : c[p[1]][p[2]] }

AllAlive(c) == \A p \in Cells : c[p[1]][p[2]]

AllDead(c) == \A p \in Cells : ~c[p[1]][p[2]]

IsCorner(x, y) == x \in {0, width - 1} /\ y \in {0, height - 1}

IsBorder(x, y) == x \in {0, width - 1} \/ y \in {0, height - 1}

Scenario5x5 == [w |-> 5, h |-> 5, chance |-> 100, birth |-> 8, death |-> 0]

Scenario3x3 == [w |-> 3, h |-> 3, chance |-> 0, birth |-> 0, death |-> 5]

(***************************************************************************)
(* C1.  After a step, every cell holds the rule's verdict on its value and *)
(* its alive-neighbour count in the grid the step started from: alive and  *)
(* n < deathLimit dies, alive and n >= deathLimit lives, dead and          *)
(* n > birthLimit is born, dead and n <= birthLimit stays dead.            *)
(***************************************************************************)
C1_StepFollowsRule ==
    (Settled /\ lastOp = "step") =>
        \A p \in Cells :
            LET n == AliveAround(pre, p[1], p[2])
            IN  /\ cave[p[1]][p[2]] = Rule(pre[p[1]][p[2]], n)
                /\ (pre[p[1]][p[2]] /\ n < deathLimit) => ~cave[p[1]][p[2]]
                /\ (pre[p[1]][p[2]] /\ n >= deathLimit) => cave[p[1]][p[2]]
                /\ (~pre[p[1]][p[2]] /\ n > birthLimit) => cave[p[1]][p[2]]
                /\ (~pre[p[1]][p[2]] /\ n <= birthLimit) => ~cave[p[1]][p[2]]

\* A step in which one cell with exactly deathLimit neighbours stayed alive,
\* one with exactly birthLimit neighbours stayed dead, one died and one was
\* born.
C1_Witness ==
    /\ Settled /\ lastOp = "step"
    /\ \E a, b, d, e \in Cells :
        /\ pre[a[1]][a[2]] /\ AliveAround(pre, a[1], a[2]) = deathLimit
        /\ cave[a[1]][a[2]]
        /\ ~pre[b[1]][b[2]] /\ AliveAround(pre, b[1], b[2]) = birthLimit
        /\ ~cave[b[1]][b[2]]
        /\ pre[d[1]][d[2]] /\ ~cave[d[1]][d[2]]
        /\ ~pre[e[1]][e[2]] /\ cave[e[1]][e[2]]

\* What holds at every position inside simulateStep's loops.
C2_DuringStep ==
    pc = "step" =>
        /\ cave = pre
        /\ \A p \in Cells :
            newCave[p[1]][p[2]] =
                IF p[1] * height + p[2] < k
                THEN Rule(pre[p[1]][p[2]], AliveAround(pre, p[1], p[2]))
                ELSE pre[p[1]][p[2]]

(***************************************************************************)
(* C2.  While a step is under way the automaton's grid is the pre-step     *)
(* grid and is not written; the cells already visited hold in newCave the  *)
(* rule's verdict on the pre-step grid and the others their old value; the *)
(* grid is then replaced at once by the complete new generation.           *)
(***************************************************************************)
C2_SynchronousUpdate ==
    [][ /\ C2_DuringStep'
        /\ (pc = "step" /\ pc' = "step") => cave' = cave
        /\ (pc = "step" /\ pc' # "step") =>
              /\ \A p \in Cells : p[1] * height + p[2] < k
              /\ cave' = newCave
              /\ \A p \in Cells :
                    cave'[p[1]][p[2]] =
                        Rule(pre[p[1]][p[2]], AliveAround(pre, p[1], p[2])) ]_vars

\* A step half done, on a grid where updating in place would give another
\* generation than the snapshot does.
C2_Witness ==
    /\ pc = "step" /\ k > 0 /\ k < width * height
    /\ newCave # cave
    /\ simulateStepInPlace(pre) # simulateStep(pre)

(***************************************************************************)
(* C3.  As claimed: on the 3x3 all-dead grid with birthLimit = 0 and       *)
(* deathLimit = 5, one step makes all nine cells alive.                    *)
(***************************************************************************)
C3_AllBornAsClaimed ==
    (inp = Scenario3x3 /\ Settled /\ lastOp = "step" /\ stepsSinceReset = 1) =>
        /\ AllAlive(cave)
        /\ getAliveCount(cave) = 9

(***************************************************************************)
(* C3, amended.  On the 3x3 all-dead grid with birthLimit = 0 and          *)
(* deathLimit = 5, one step leaves all nine cells dead (every cell has 0   *)
(* alive neighbours, and 0 > 0 is false): the alive count is 0.            *)
(***************************************************************************)
C3_AllStayDead ==
    (inp = Scenario3x3 /\ Settled /\ lastOp = "step" /\ stepsSinceReset = 1) =>
        /\ AllDead(cave)
        /\ getAliveCount(cave) = 0

C3_Witness ==
    /\ inp = Scenario3x3 /\ Settled /\ lastOp = "step" /\ stepsSinceReset = 1
    /\ width = 3 /\ height = 3 /\ birthLimit = 0 /\ deathLimit = 5
    /\ AllDead(pre)

(***************************************************************************)
(* C4.  With deathLimit = 0 a step kills no cell: every cell alive before  *)
(* it is alive after it and the alive count does not decrease; the 5x5     *)
(* all-alive grid with birthLimit = 8 still counts 25 after a step.        *)
(***************************************************************************)
C4_NoDeathAtZero ==
    (Settled /\ lastOp = "step" /\ deathLimit = 0) =>
        /\ \A p \in Cells : pre[p[1]][p[2]] => cave[p[1]][p[2]]
        /\ getAliveCount(cave) >= getAliveCount(pre)
        /\ (inp = Scenario5x5 /\ stepsSinceReset = 1) => getAliveCount(cave) = 25

C4_Witness ==
    /\ inp = Scenario5x5 /\ Settled /\ lastOp = "step" /\ stepsSinceReset = 1
    /\ AllAlive(pre)
    /\ getAliveCount(cave) = 25

(***************************************************************************)
(* C5.  The neighbour count of every cell is the number of alive cells     *)
(* among the positions around it that lie inside the grid: no wraparound,  *)
(* the cell itself not counted, between 0 and 8, at most 3 in a corner and *)
(* at most 5 on the border of a grid at least 2 wide and high.             *)
(***************************************************************************)
C5_NeighborCount ==
    Constructed =>
        \A p \in Cells :
            LET n == countAliveNeighbors(cave, p[1], p[2])
            IN  /\ n = AliveAround(cave, p[1], p[2])
                /\ n >= 0 /\ n <= 8
                /\ (width >= 2 /\ height >= 2 /\ IsCorner(p[1], p[2])) => n <= 3
                /\ (width >= 2 /\ height >= 2 /\ IsBorder(p[1], p[2])) => n <= 5

\* The 3x3 grid, all alive: 8 around the centre (itself not counted), 3 in
\* a corner, 5 on an edge.
C5_Witness ==
    /\ Constructed /\ width = 3 /\ height = 3
    /\ AllAlive(cave)
    /\ countAliveNeighbors(cave, 1, 1) = 8
    /\ countAliveNeighbors(cave, 0, 0) = 3
    /\ countAliveNeighbors(cave, 1, 0) = 5

(***************************************************************************)
(* C6.  For a construction with width > 0 and height > 0 the grid has, at  *)
(* every moment after construction, exactly width columns of exactly       *)
(* height cells, and getWidth and getHeight are the constructor's values.  *)
(***************************************************************************)
C6_Dimensions ==
    (Constructed /\ inp.w > 0 /\ inp.h > 0) =>
        /\ width = inp.w /\ height = inp.h
        /\ DOMAIN cave = 0..(inp.w - 1)
        /\ \A x \in DOMAIN cave : DOMAIN cave[x] = 0..(inp.h - 1)
        /\ \A x \in DOMAIN cave : \A y \in DOMAIN cave[x] : cave[x][y] \in BOOLEAN

C6_Witness ==
    /\ Settled /\ inp.w = 3 /\ inp.h = 2
    /\ lastOp = "step" /\ stepsSinceReset = 2
    /\ cave # pre

(***************************************************************************)
(* C7.  getAliveCount returns the number of true cells of the grid, and    *)
(* render, which calls it, leaves the grid and the parameters unchanged.   *)
(***************************************************************************)
C7_AliveCount ==
    [][ pc = "render" =>
          /\ getAliveCount(cave) = Cardinality(AliveCells(cave))
          /\ core' = core ]_vars

C7_Witness ==
    /\ pc = "render" /\ iteration = 1 /\ lastOp = "step"
    /\ width = 3 /\ height = 3
    /\ getAliveCount(cave) = 4
    /\ cave[2][2] /\ ~cave[0][0]

(***************************************************************************)
(* C8.  Construction with width <= 0, height <= 0 or birthChance outside   *)
(* [0, 1] is rejected: no automaton comes out of it.                       *)
(***************************************************************************)
C8_FailFast ==
    Constructed => ValidInput(inp)

(***************************************************************************)
(* C9.  The shell's counter is the number of steps applied since the last  *)
(* randomization: an advance applies one step and adds one, a reset        *)
(* randomizes once and sets it to 0, a quit touches neither the automaton  *)
(* nor the counter.                                                        *)
(***************************************************************************)
C9_IterationCounter ==
    [][ /\ iteration' = stepsSinceReset'
        /\ (iteration' = iteration + 1) =>
              (cave' = simulateStep(cave) /\ lastOp' = "step")
        /\ (pc = "events" /\ lastOp' = "step" /\ pre' = cave) =>
              \/ UNCHANGED <<iteration, cave, stepsSinceReset>>
              \/ (iteration' = iteration + 1 /\ cave' = simulateStep(cave))
        /\ (pc = "events" /\ stepsSinceReset' = 0 /\ stepsSinceReset > 0) =>
              (iteration' = 0 /\ lastOp' = "randomize")
        /\ (windowOpen /\ ~windowOpen') =>
              UNCHANGED <<core, iteration, stepsSinceReset, lastOp>> ]_vars

\* Two advances, then a quit, all rendered.
C9_Witness ==
    /\ pc = "done" /\ ~windowOpen
    /\ iteration = 2 /\ stepsSinceReset = 2 /\ lastOp = "step"

(***************************************************************************)
(* C10.  After construction and after every randomization, a birthChance   *)
(* of 1.0 leaves every cell alive (count = width * height) and a           *)
(* birthChance of 0.0 leaves every cell dead (count = 0).                  *)
(***************************************************************************)
C10_RandomizeExtremes ==
    [][ (Constructed' /\ lastOp' \in {"construct", "randomize"}
         /\ width' > 0 /\ height' > 0) =>
          /\ birthChance' = 100 =>
                (AllAlive(cave)' /\ getAliveCount(cave)' = width' * height')
          /\ birthChance' = 0 =>
                (AllDead(cave)' /\ getAliveCount(cave)' = 0) ]_vars

\* A randomization at birthChance 1.0 of a 3x3 grid.
C10_Witness ==
    /\ lastOp = "randomize" /\ birthChance = 100
    /\ width = 3 /\ height = 3 /\ birthLimit = 8 /\ deathLimit = 8
    /\ getAliveCount(cave) = 9

====
